---- MODULE Spec2Model ----
(***************************************************************************)
(* azk, a work time tracker (src/main.rs).  Each invocation of the binary  *)
(* is one step: `stamp` opens today's log, reads it, decides the kind of   *)
(* the new record and appends it; `get [DAY]` opens a log, reads it and    *)
(* prints the worked duration.  Spec starts from fresh logs, SpecLogs from  *)
(* logs found on disk; SpecConc runs two `stamp` processes step by step on *)
(* one log; SpecCodec calls the time codec on its own.                     *)
(*                                                                         *)
(* Text is modelled as sequences of one-character strings, a log file as   *)
(* the sequence of its bytes.  The csv layer is modelled on the subset the *)
(* tool writes: '\n' ends a record, ',' separates fields, no quoting.      *)
(***************************************************************************)
EXTENDS Integers, Sequences, FiniteSets, TLC

\* ------------------------------------------------------------------ bounds
\* Most records the logs of the data directory may hold together; `stamp` is
\* not invoked beyond it.
MaxEvents == 3
\* Most records of a log that exists before the first invocation (SpecLogs).
MaxInitEvents == 2
\* The longest text handed to hhmmss_to_s, and how far below zero the
\* seconds handed to s_to_hhmm go.
MaxTextLen == 7
MaxNegative == 7300

\* Wall-clock seconds since midnight at which an invocation may happen:
\* 00:00:00, 09:00:00, 17:00:00.
TimePoints == {0, 32400, 61200}

\* The calendar days the model's clock runs through, in order.
Days == {1, 2}
\* `get` without the optional DAY argument.
NoDay == 0

\* --------------------------------------------------------------- text
NL == "\n"
COMMA == ","
COLON == ":"
DigitChars == <<"0", "1", "2", "3", "4", "5", "6", "7", "8", "9">>

STRT == <<"s", "t", "r", "t">>
STOP == <<"s", "t", "o", "p">>
KIND == <<"k", "i", "n", "d">>
TIME == <<"t", "i", "m", "e">>

IsDigit(c) == \E i \in 1..10 : DigitChars[i] = c
DigitVal(c) == (CHOOSE i \in 1..10 : DigitChars[i] = c) - 1

\* Where the pieces of s split at c end: at each c, and after the last
\* character.
Ends(s, c) == {i \in 1..Len(s) : s[i] = c} \cup {Len(s) + 1}

\* The r-th smallest member of a set of positions, 0 for r = 0.
Nth(ends, r) ==
    IF r = 0 THEN 0
    ELSE CHOOSE i \in ends : Cardinality({j \in ends : j <= i}) = r

\* The pieces of s, at most n, that end at the positions `ends`; the last one
\* runs to the end of s.
SplitAt(s, n, ends) ==
    LET count == IF Cardinality(ends) <= n THEN Cardinality(ends) ELSE n
    IN  [r \in 1..count |->
           SubSeq(s, Nth(ends, r - 1) + 1,
                  IF r = count THEN Len(s) ELSE Nth(ends, r) - 1)]

\* str::splitn(n, c): at most n pieces, the last one holding the remainder
\* of s, separators included.
SplitN(s, n, c) == SplitAt(s, n, Ends(s, c))

\* str::split: the pieces of s between occurrences of c (one empty piece for
\* the empty string).
Split(s, c) == SplitN(s, Len(s) + 1, c)

RECURSIVE DigitsVal(_)
DigitsVal(s) ==
    IF s = <<>> THEN 0
    ELSE 10 * DigitsVal(SubSeq(s, 1, Len(s) - 1)) + DigitVal(s[Len(s)])

\* str::parse::<isize>: an optional sign followed by one or more digits.
ParseInt(s) ==
    LET signed == s # <<>> /\ s[1] \in {"+", "-"}
        body   == IF signed THEN Tail(s) ELSE s
    IN  IF body # <<>> /\ \A i \in 1..Len(body) : IsDigit(body[i])
        THEN [ok |-> TRUE,
              val |-> IF signed /\ s[1] = "-" THEN 0 - DigitsVal(body)
                      ELSE DigitsVal(body)]
        ELSE [ok |-> FALSE, val |-> 0]

RECURSIVE NatDigits(_)
NatDigits(n) ==
    IF n < 10 THEN <<DigitChars[n + 1]>>
    ELSE NatDigits(n \div 10) \o <<DigitChars[(n % 10) + 1]>>

\* format!("{:02}", n): the sign, then the digits, zero-padded to width 2.
Fmt02(n) ==
    IF n < 0 THEN <<"-">> \o NatDigits(0 - n)
    ELSE IF n < 10 THEN <<"0">> \o NatDigits(n)
    ELSE NatDigits(n)

\* A division that rounds toward minus infinity.
TruncDiv_floor(a, b) == a \div b

\* Rust's `/` and `%` on isize truncate toward zero.
TruncDiv(a, b) == IF a >= 0 THEN a \div b ELSE 0 - ((0 - a) \div b)
TruncRem(a, b) == a - b * TruncDiv(a, b)

\* ----------------------------------------------------------- time codec
SECONDS_PER_MINUTE == 60
SECONDS_PER_HOUR == 60 * 60

\* .map(|n| n.parse::<isize>()) over the pieces.
ParseParts(parts) == [i \in 1..Len(parts) |-> ParseInt(parts[i])]

\* The three next().unwrap() and the sum; ok = FALSE is the panic of expect
\* (one of the three pieces is no integer) or of unwrap (fewer than three
\* pieces).
SecondsOf(nums) ==
    IF Len(nums) >= 3 /\ \A i \in 1..3 : nums[i].ok
    THEN [ok |-> TRUE,
          val |-> (nums[1].val * SECONDS_PER_HOUR)
                  + (nums[2].val * SECONDS_PER_MINUTE) + nums[3].val]
    ELSE [ok |-> FALSE, val |-> 0]

\* A parser that splits at every ':'.
hhmmss_to_s_split(hhmmss) == SecondsOf(ParseParts(Split(hhmmss, COLON)))

\* The result is [ok, val]; ok = FALSE is a panic.
hhmmss_to_s(hhmmss) == SecondsOf(ParseParts(SplitN(hhmmss, 3, COLON)))

s_to_hhmm(s) ==
    LET hours   == TruncDiv(s, SECONDS_PER_HOUR)
        minutes == TruncDiv(TruncRem(s, SECONDS_PER_HOUR), SECONDS_PER_MINUTE)
    IN  Fmt02(hours) \o <<COLON>> \o Fmt02(minutes)

\* now.format("%H:%M:%S") for a wall-clock time of t seconds since midnight.
FormatHMS(t) ==
    Fmt02(t \div 3600) \o <<COLON>> \o Fmt02((t % 3600) \div 60)
        \o <<COLON>> \o Fmt02(t % 60)

\* ------------------------------------------------------------ event log
\* csv::Writer::serialize of one row of fields.
RECURSIVE JoinFields(_)
JoinFields(fields) ==
    IF Len(fields) = 1 THEN fields[1]
    ELSE fields[1] \o <<COMMA>> \o JoinFields(Tail(fields))

\* A writer that leaves out the record terminator.
EncodeRow_unterminated(fields) == JoinFields(fields)

EncodeRow(fields) == JoinFields(fields) \o <<NL>>

\* The header row serde derives from struct Record { kind, time }.
HeaderRow == <<KIND, TIME>>

\* A csv writer that always emits the header row, whatever the file's size.
write_record_always_headers(file, record) ==
    file \o EncodeRow(HeaderRow) \o EncodeRow(<<record.kind, record.time>>)

\* A writer on a file opened without append: it writes from offset 0 of a
\* truncated file.
write_record_truncating(file, record) ==
    EncodeRow(HeaderRow) \o EncodeRow(<<record.kind, record.time>>)

\* A writer that never emits the header row.
Serialize_no_headers(file, record, write_headers) ==
    file \o EncodeRow(<<record.kind, record.time>>)

\* wtr.serialize and wtr.flush on a file open in append mode: the header
\* row (with has_headers) and the record go to the end of the file in one
\* write.
Serialize(file, record, write_headers) ==
    file \o (IF write_headers THEN EncodeRow(HeaderRow) ELSE <<>>)
         \o EncodeRow(<<record.kind, record.time>>)

\* The bytes of the file after write_record: the header is written when the
\* file is empty.
write_record(file, record) == Serialize(file, record, Len(file) = 0)

\* The fields of each line.
FieldsOf(lines) == [i \in 1..Len(lines) |-> Split(lines[i], COMMA)]

\* csv::Reader: the rows of the file, empty lines skipped.
Rows(file) == FieldsOf(SelectSeq(Split(file, NL), LAMBDA l : l # <<>>))

Column(headers, name) == {i \in 1..Len(headers) : headers[i] = name}

\* Rows 2.. decoded into Records by the columns named kind and time; every
\* row must be as long as the header row, which must name each field once.
DecodeBy(rows, kcol, tcol) ==
    IF /\ Cardinality(kcol) = 1
       /\ Cardinality(tcol) = 1
       /\ \A i \in 2..Len(rows) : Len(rows[i]) = Len(rows[1])
    THEN [ok |-> TRUE,
          records |-> [i \in 1..(Len(rows) - 1) |->
                         [kind |-> rows[i + 1][CHOOSE c \in kcol : TRUE],
                          time |-> rows[i + 1][CHOOSE c \in tcol : TRUE]]]]
    ELSE [ok |-> FALSE, records |-> <<>>]

\* rdr.deserialize::<Record>(): the first row is the header row, every later
\* row a Record.  [ok, records]; ok = FALSE is a csv::Error.
DecodeRows(rows) ==
    IF Len(rows) <= 1 THEN [ok |-> TRUE, records |-> <<>>]
    ELSE DecodeBy(rows, Column(rows[1], KIND), Column(rows[1], TIME))

ReadRecords(file) == DecodeRows(Rows(file))

RECURSIVE SumTimes(_)
SumTimes(records) ==
    IF records = <<>> THEN 0
    ELSE hhmmss_to_s(Head(records).time).val + SumTimes(Tail(records))

\* A DayInfo whose start is taken from the latest "strt" record.
DayInfoOf_latest_start(starts, stops) ==
    [status |-> "ok",
     start |-> IF Len(starts) = 0 THEN 0
               ELSE hhmmss_to_s(starts[Len(starts)].time).val,
     duration |-> SumTimes(starts) - SumTimes(stops)]

\* DayInfo { start, duration: adding - subtracting } from the partition.
DayInfoOf(starts, stops) ==
    [status |-> "ok",
     start |-> IF Len(starts) = 0 THEN 0 ELSE hhmmss_to_s(starts[1].time).val,
     duration |-> SumTimes(starts) - SumTimes(stops)]

\* A reader that drops what it cannot decode and sums the rest.
Partition_lenient(rd) ==
    DayInfoOf(SelectSeq(rd.records,
                        LAMBDA x : x.kind = STRT /\ hhmmss_to_s(x.time).ok),
              SelectSeq(rd.records,
                        LAMBDA x : x.kind # STRT /\ hhmmss_to_s(x.time).ok))

\* [status, start, duration] from the outcome rd of the csv reader: status is
\* "ok", or the panic that ends the process ("csv": a row that does not
\* decode; "time": a malformed time).
Partition(rd) ==
    IF ~rd.ok THEN [status |-> "csv", start |-> 0, duration |-> 0]
    ELSE IF \E i \in 1..Len(rd.records) : ~hhmmss_to_s(rd.records[i].time).ok
    THEN [status |-> "time", start |-> 0, duration |-> 0]
    ELSE DayInfoOf(SelectSeq(rd.records, LAMBDA x : x.kind = STRT),
                   SelectSeq(rd.records, LAMBDA x : x.kind # STRT))

read_work_time(file) == Partition(ReadRecords(file))

\* The Record update_time builds from the DayInfo it read.
NextRecord(time, info) ==
    [time |-> time, kind |-> IF info.duration < 0 THEN STOP ELSE STRT]

\* An update_time that writes whatever the read returned.
WriteNext_write_first(file, time, info) ==
    [status |-> info.status,
     file |-> write_record(file, NextRecord(time, info)),
     wrote |-> <<NextRecord(time, info)>>]

\* update_time after read_work_time returned info.  [status, file, wrote]:
\* the outcome, the bytes of the file after it and the records it handed to
\* write_record.  A panic in read_work_time ends the process before any
\* write.
WriteNext(file, time, info) ==
    IF info.status # "ok"
    THEN [status |-> info.status, file |-> file, wrote |-> <<>>]
    ELSE [status |-> "ok",
          file |-> write_record(file, NextRecord(time, info)),
          wrote |-> <<NextRecord(time, info)>>]

update_time(file, time) == WriteNext(file, time, read_work_time(file))

\* --------------------------------------------------------- day resolver
\* The path of a day's log: <data dir>/<date>.csv.
file_path(date) == <<"data_dir", date, "csv">>

Paths == {file_path(d) : d \in Days}

\* ---------------------------------------------------------------- state
VARIABLES
    store,   \* the data directory: path -> [exists, readable, bytes]
    today,   \* the date of the latest invocation (chrono::Local::now)
    clock,   \* its wall-clock time, in seconds since midnight
    last,    \* what the latest invocation did and reported
    events,  \* how many records the logs of the data directory hold
    appended, \* path -> the records handed to write_record, in order
    procs,   \* the concurrent `stamp` processes (SpecConc)
    call     \* the latest call of the time codec (SpecCodec)

vars == <<store, today, clock, last, events, appended, procs, call>>

Absent == [exists |-> FALSE, readable |-> FALSE, bytes |-> <<>>]
FileOf(bytes, readable) ==
    [exists |-> TRUE, readable |-> readable, bytes |-> bytes]

NoInfo == [start |-> 0, duration |-> 0]

\* The record of an invocation: the subcommand and its DAY argument, the path
\* it opened, the process exit status, the stream and text of its message,
\* the DayInfo it computed and the strings it formatted.
Outcome(cmd, day, path, exit, stream, msg, detail, info, texts) ==
    [cmd |-> cmd, day |-> day, path |-> path, exit |-> exit,
     stream |-> stream, msg |-> msg, detail |-> detail,
     info |-> info, worked |-> texts[1], from |-> texts[2], to |-> texts[3]]

NoTexts == << <<>>, <<>>, <<>> >>

\* main returning Err(e): Rust prints "Error: {e:?}" on stderr, exit status 1.
MainErr(cmd, day, path, kind) ==
    Outcome(cmd, day, path, 1, "stderr", "Error", kind, NoInfo, NoTexts)

\* A panic: the panic message on stderr, exit status 101.
Panicked(cmd, day, path, what) ==
    Outcome(cmd, day, path, 101, "stderr", "panic", what, NoInfo, NoTexts)

\* The io::Error of opening file f, "" when the open succeeds; with create,
\* the open creates an absent file.
OpenError(f, create) ==
    IF ~f.exists THEN (IF create THEN "" ELSE "NotFound")
    ELSE IF ~f.readable THEN "PermissionDenied"
    ELSE ""

\* An invocation at date d, time t happens no earlier than the previous one.
NotEarlier(d, t) == d > today \/ (d = today /\ t >= clock)

\* The effect of `azk stamp` on path, given the io::Error err of opening the
\* file f and the outcome r of update_time.
StampEffect(path, f, err, r) ==
    /\ events' = IF err = "" /\ r.status = "ok" THEN events + 1 ELSE events
    /\ appended' = IF err = ""
                   THEN [appended EXCEPT ![path] = @ \o r.wrote]
                   ELSE appended
    /\ IF err # ""
       THEN /\ store' = store
            /\ last' = MainErr("stamp", NoDay, path, err)
       ELSE IF r.status # "ok"
       THEN /\ store' = [store EXCEPT ![path] = FileOf(r.file, TRUE)]
            /\ last' = Panicked("stamp", NoDay, path, r.status)
       ELSE /\ store' = [store EXCEPT ![path] = FileOf(r.file, TRUE)]
            /\ last' = Outcome("stamp", NoDay, path, 0, "stdout", "Updated",
                               "", NoInfo, NoTexts)

\* `azk stamp` at date d, wall-clock time t.
Stamp ==
    \E d \in Days, t \in TimePoints :
        /\ NotEarlier(d, t)
        /\ events < MaxEvents
        /\ today' = d
        /\ clock' = t
        /\ StampEffect(file_path(d), store[file_path(d)],
                       OpenError(store[file_path(d)], TRUE),
                       update_time(store[file_path(d)].bytes, FormatHMS(t)))
        /\ UNCHANGED <<procs, call>>

\* What `azk get` reports, given the io::Error err of opening the file and
\* the outcome info of read_work_time.
Report(day, path, err, info) ==
    IF err # "" THEN MainErr("get", day, path, err)
    ELSE IF info.status # "ok" THEN Panicked("get", day, path, info.status)
    ELSE IF info.duration < 0
    THEN Outcome("get", day, path, 0, "stdout", "Work ain't over yet.", "",
                 [start |-> info.start, duration |-> info.duration], NoTexts)
    ELSE Outcome("get", day, path, 0, "stdout", "Worked for", "",
                 [start |-> info.start, duration |-> info.duration],
                 <<s_to_hhmm(info.duration), s_to_hhmm(info.start),
                   s_to_hhmm(info.start + info.duration)>>)

\* What `azk get [DAY]` reports at date d; day = NoDay without DAY.  The log
\* it opens is the one of date d.
GetOutcome(d, day) ==
    Report(day, file_path(d), OpenError(store[file_path(d)], FALSE),
           read_work_time(store[file_path(d)].bytes))

\* `azk get [DAY]` at date d, wall-clock time t.
Get ==
    \E d \in Days, t \in TimePoints, day \in Days \cup {NoDay} :
        /\ NotEarlier(d, t)
        /\ today' = d
        /\ clock' = t
        /\ store' = store
        /\ events' = events
        /\ last' = GetOutcome(d, day)
        /\ UNCHANGED <<appended, procs, call>>

Next == Stamp \/ Get

NoRun == Outcome("none", NoDay, <<>>, 0, "", "", "", NoInfo, NoTexts)

\* No concurrent process has started; the codec has not been called.
Procs == {1, 2}
NoProc ==
    [pc |-> "idle", time |-> <<>>, seen |-> <<>>,
     info |-> [status |-> "", start |-> 0, duration |-> 0],
     write_headers |-> FALSE, wrote |-> <<>>]
NoCall == [op |-> "none", hms |-> <<>>, text |-> <<>>, secs |-> 0,
           ok |-> FALSE, val |-> 0, shown |-> <<>>]

\* The state before the first invocation, apart from the data directory.
Fresh ==
    /\ today = 1
    /\ clock = 0
    /\ last = NoRun
    /\ appended = [p \in Paths |-> <<>>]
    /\ procs = [p \in Procs |-> NoProc]
    /\ call = NoCall

\* A fresh data directory: each day's log is absent, or an empty file.
Init ==
    /\ store \in [Paths -> {Absent, FileOf(<<>>, TRUE), FileOf(<<>>, FALSE)}]
    /\ Fresh
    /\ events = 0

Spec == Init /\ [][Next]_vars

\* ------------------------------------------------- logs found on disk
\* Kinds and time fields of the records of a log that exists before the
\* first invocation: the two tags the tool writes and a foreign tag; the
\* wall-clock times and a time with two components only.  ShortRow is a row
\* that lost its time field.
PAUS == <<"p", "a", "u", "s">>
MalformedTime == <<"9", ":", "6", "0">>
ShortRow == <<STOP>>
InitRecord ==
    {[kind |-> STRT, time |-> FormatHMS(32400)],
     [kind |-> STRT, time |-> FormatHMS(61200)],
     [kind |-> STOP, time |-> FormatHMS(61200)],
     [kind |-> PAUS, time |-> FormatHMS(61200)],
     [kind |-> STRT, time |-> MalformedTime],
     [kind |-> STOP, time |-> MalformedTime]}

RECURSIVE EncodeRecords(_)
EncodeRecords(records) ==
    IF records = <<>> THEN <<>>
    ELSE EncodeRow(<<Head(records).kind, Head(records).time>>)
             \o EncodeRecords(Tail(records))

EncodeLog(records) == EncodeRow(HeaderRow) \o EncodeRecords(records)

InitRecords ==
    UNION {[1..k -> InitRecord] : k \in 0..MaxInitEvents}

\* The log of the records with the row of record k (none when k = 0)
\* replaced by ShortRow.
DamagedLog(records, k) ==
    IF k = 0 THEN EncodeLog(records)
    ELSE EncodeLog(SubSeq(records, 1, k - 1))
             \o EncodeRow(ShortRow)
             \o EncodeRecords(SubSeq(records, k + 1, Len(records)))

\* The first day's log holds any of the bounded logs; the other days are
\* fresh.
InitLogs ==
    /\ \E records \in InitRecords :
          \E k \in 0..Len(records) :
              /\ store = [p \in Paths |->
                            IF p = file_path(1)
                            THEN FileOf(DamagedLog(records, k), TRUE)
                            ELSE Absent]
              /\ events = Len(records)
    /\ Fresh

SpecLogs == InitLogs /\ [][Next]_vars

\* ------------------------------------------- two `stamp` processes
\* Two invocations of `azk stamp` on the same day run as separate processes
\* on the day's file.  Each goes through main's steps in order: it takes the
\* time and opens the file (creating it), read_work_time reads the file,
\* write_record asks the file's size, and the flush appends the buffered
\* rows in one write.  The steps of the two processes interleave freely.
ThePath == file_path(1)

\* A process that took a lock on the log after its read and before its
\* write, as seen by process p.
Locked_exclusive(p) ==
    \E q \in Procs \ {p} : procs[q].pc \in {"read", "checked"}

\* The code takes no lock on the file: nothing makes a process wait for
\* another.
Locked(p) == FALSE

Others == <<today, clock, last, call>>

\* now, file_path and File::options()...open(): an absent file is created
\* empty; an unreadable one ends main with the io::Error.
Open(p) ==
    /\ procs[p].pc = "idle"
    /\ \E t \in TimePoints :
          procs' = [procs EXCEPT
                      ![p].pc = IF OpenError(store[ThePath], TRUE) = ""
                                THEN "opened" ELSE "failed",
                      ![p].time = FormatHMS(t)]
    /\ store' = IF store[ThePath].exists THEN store
                ELSE [store EXCEPT ![ThePath] = FileOf(<<>>, TRUE)]
    /\ UNCHANGED <<events, appended, Others>>

\* read_work_time(file)?: the contents at this moment; a panic ends the
\* process.
Read(p) ==
    /\ procs[p].pc = "opened"
    /\ ~Locked(p)
    /\ procs' = [procs EXCEPT
                    ![p].pc = IF read_work_time(store[ThePath].bytes).status
                                  = "ok"
                              THEN "read" ELSE "panicked",
                    ![p].seen = store[ThePath].bytes,
                    ![p].info = read_work_time(store[ThePath].bytes)]
    /\ UNCHANGED <<store, events, appended, Others>>

\* write_record: write_headers = (file.metadata()?.len() == 0).
Check(p) ==
    /\ procs[p].pc = "read"
    /\ procs' = [procs EXCEPT
                    ![p].pc = "checked",
                    ![p].write_headers = (Len(store[ThePath].bytes) = 0)]
    /\ UNCHANGED <<store, events, appended, Others>>

\* wtr.serialize(record) and wtr.flush(): the record decided from what the
\* process read goes to the end of the file, after the header row when
\* write_headers.
Write(p) ==
    /\ procs[p].pc = "checked"
    /\ store' = [store EXCEPT ![ThePath] =
                    FileOf(Serialize(store[ThePath].bytes,
                                     NextRecord(procs[p].time, procs[p].info),
                                     procs[p].write_headers), TRUE)]
    /\ procs' = [procs EXCEPT
                    ![p].pc = "done",
                    ![p].wrote = <<NextRecord(procs[p].time, procs[p].info)>>]
    /\ appended' = [appended EXCEPT ![ThePath] =
                       @ \o <<NextRecord(procs[p].time, procs[p].info)>>]
    /\ events' = events + 1
    /\ UNCHANGED Others

Step(p) == Open(p) \/ Read(p) \/ Check(p) \/ Write(p)

NextConc == \E p \in Procs : Step(p)

\* The day's log is absent, or present and empty.
InitConc ==
    /\ store \in [Paths -> {Absent, FileOf(<<>>, TRUE)}]
    /\ events = 0
    /\ Fresh

SpecConc == InitConc /\ [][NextConc]_vars

\* ------------------------------------------------ calls of the time codec
\* The "%H:%M:%S" text of hour h, minute m, second s.
Clock(h, m, s) ==
    Fmt02(h) \o <<COLON>> \o Fmt02(m) \o <<COLON>> \o Fmt02(s)

\* The characters of the other texts: a digit, the separator, a sign and a
\* letter; the texts of at most MaxTextLen of them.
TextChars == {"1", COLON, "-", "x"}
Texts == UNION {[1..k -> TextChars] : k \in 0..MaxTextLen}

\* The seconds handed to s_to_hhmm: those of a day, and negative ones.
SecondsInputs == (0 - MaxNegative)..(24 * SECONDS_PER_HOUR - 1)

Parsed(hms, text, r) ==
    [op |-> "hhmmss_to_s", hms |-> hms, text |-> text, secs |-> 0,
     ok |-> r.ok, val |-> r.val, shown |-> <<>>]

\* hhmmss_to_s on the text of a time of day.
ParseClock ==
    /\ call = NoCall
    /\ \E h \in 0..23, m \in 0..59, s \in 0..59 :
          call' = Parsed(<<h, m, s>>, Clock(h, m, s),
                         hhmmss_to_s(Clock(h, m, s)))
    /\ UNCHANGED <<store, today, clock, last, events, appended, procs>>

\* hhmmss_to_s on any text.
ParseText ==
    /\ call = NoCall
    /\ \E text \in Texts : call' = Parsed(<<>>, text, hhmmss_to_s(text))
    /\ UNCHANGED <<store, today, clock, last, events, appended, procs>>

\* s_to_hhmm on a number of seconds.
FormatSeconds ==
    /\ call = NoCall
    /\ \E secs \in SecondsInputs :
          call' = [op |-> "s_to_hhmm", hms |-> <<>>, text |-> <<>>,
                   secs |-> secs, ok |-> TRUE, val |-> 0,
                   shown |-> s_to_hhmm(secs)]
    /\ UNCHANGED <<store, today, clock, last, events, appended, procs>>

InitCodec ==
    /\ store = [p \in Paths |-> Absent]
    /\ events = 0
    /\ Fresh

NextCodec == ParseClock \/ ParseText \/ FormatSeconds

SpecCodec == InitCodec /\ [][NextCodec]_vars

\* ------------------------------------------------------------ properties
ClockIn == STRT
ClockOut == STOP

\* The records the reader decodes from the log at path p, and their times.
RecordsAt(p) == ReadRecords(store[p].bytes).records
TimeOf(r) == hhmmss_to_s(r.time).val

\* The log at p decodes, and every time in it parses.
Readable(p) == read_work_time(store[p].bytes).status = "ok"

RECURSIVE SumOfKind(_, _)
SumOfKind(records, kind) ==
    IF records = <<>> THEN 0
    ELSE (IF Head(records).kind = kind THEN TimeOf(Head(records)) ELSE 0)
             + SumOfKind(Tail(records), kind)

StrictlyIncreasing(records) ==
    \A i \in 1..(Len(records) - 1) :
        TimeOf(records[i]) < TimeOf(records[i + 1])

Alternating(records) ==
    \A i \in 1..Len(records) :
        records[i].kind = IF i % 2 = 1 THEN ClockIn ELSE ClockOut

IsPrefix(s, t) == Len(s) <= Len(t) /\ SubSeq(t, 1, Len(s)) = s

GetRan == last.cmd = "get"
GetRead == GetRan /\ last.msg \in {"Worked for", "Work ain't over yet."}
StampWrote == last.cmd = "stamp" /\ last.exit = 0

\* C1: in a log that started absent or empty and was filled by stamps at
\* strictly increasing times, the kinds of the records alternate, starting
\* with ClockIn: strt, stop, strt, ...  (Stated for stamps after 00:00:00: a
\* ClockIn at 00:00:00 adds nothing to either sum.)
C1_StampsAlternate ==
    \A p \in Paths :
        (/\ Readable(p)
         /\ StrictlyIncreasing(RecordsAt(p))
         /\ \A i \in 1..Len(RecordsAt(p)) : TimeOf(RecordsAt(p)[i]) > 0)
            => Alternating(RecordsAt(p))

\* C2: the record a stamp appends is a ClockOut exactly when the log it found
\* holds more clock-in time than clock-out time, and a ClockIn otherwise.
C2_StopIffMoreClockIn ==
    StampWrote =>
        LET records == RecordsAt(last.path)
            found   == SubSeq(records, 1, Len(records) - 1)
            new     == records[Len(records)]
        IN  new.kind = IF SumOfKind(found, ClockIn) > SumOfKind(found, ClockOut)
                       THEN ClockOut ELSE ClockIn

\* C3: the duration read_work_time returns is the sum of the ClockOut times
\* minus the sum of the ClockIn times of the log.
C3_NetDurationIsOutMinusIn ==
    GetRead =>
        last.info.duration = SumOfKind(RecordsAt(last.path), ClockOut)
                                 - SumOfKind(RecordsAt(last.path), ClockIn)

\* C4: for a log of alternating ClockIn/ClockOut records at strictly
\* increasing positive times, get reports "not finished" and no duration
\* when the last record is a ClockIn, and a worked duration when it is a
\* ClockOut; the log holding only ClockIn@09:00:00 has net duration -32400.
C4_OpenIffLastIsClockIn ==
    LET records == RecordsAt(last.path)
    IN  (/\ GetRead
         /\ records # <<>>
         /\ Alternating(records)
         /\ StrictlyIncreasing(records)
         /\ TimeOf(records[1]) > 0)
            => /\ IF records[Len(records)].kind = ClockIn
                  THEN last.msg = "Work ain't over yet." /\ last.worked = <<>>
                  ELSE last.msg = "Worked for"
               /\ records = <<[kind |-> ClockIn, time |-> FormatHMS(32400)]>>
                      => last.info.duration = 0 - 32400

\* C5: for a log of one ClockIn at a followed by one ClockOut at b, a < b,
\* get reports the worked duration b - a, from a to b.
C5_SinglePairReportsWorked ==
    LET records == RecordsAt(last.path)
    IN  (/\ GetRead
         /\ Len(records) = 2
         /\ records[1].kind = ClockIn
         /\ records[2].kind = ClockOut
         /\ TimeOf(records[1]) < TimeOf(records[2]))
            => /\ last.msg = "Worked for"
               /\ last.worked = s_to_hhmm(TimeOf(records[2]) - TimeOf(records[1]))
               /\ last.from = s_to_hhmm(TimeOf(records[1]))
               /\ last.to = s_to_hhmm(TimeOf(records[2]))

\* C6: get DAY opens the log of DAY, get without DAY the log of today.
C6_GetReadsRequestedDay ==
    GetRan =>
        last.path = file_path(IF last.day = NoDay THEN today ELSE last.day)

\* C7: when get computes a negative net duration, it reports "not finished"
\* on the error output and the process exits with a non-zero status.
C7_OpenDayExitsNonZero ==
    (GetRead /\ last.info.duration < 0)
        => /\ last.msg = "Work ain't over yet."
           /\ last.stream = "stderr"
           /\ last.exit # 0

\* C8: get on a day whose log does not exist ends with a non-zero status in
\* an outcome of its own, not the generic report of an I/O error that a
\* permission failure produces.
C8_AbsentLogIsDistinctOutcome ==
    (GetRan /\ ~store[last.path].exists)
        => /\ last.exit # 0
           /\ last.msg # MainErr("get", last.day, last.path,
                                 "PermissionDenied").msg

\* C9: every step leaves each existing log in place with its bytes as a
\* prefix of the new bytes; get changes no log; a successful stamp adds
\* exactly one record, carrying the captured time, at the end of the log it
\* opened, and changes no other log.
C9_Step ==
    \A p \in Paths :
        /\ store[p].exists => store'[p].exists
        /\ IsPrefix(store[p].bytes, store'[p].bytes)
        /\ last'.cmd = "get" => store'[p] = store[p]
        /\ (last'.cmd = "stamp" /\ last'.exit # 0)
               => store'[p].bytes = store[p].bytes
        /\ (last'.cmd = "stamp" /\ last'.exit = 0)
               => IF p = last'.path
                  THEN \E kind \in {ClockIn, ClockOut} :
                           ReadRecords(store'[p].bytes).records
                               = Append(ReadRecords(store[p].bytes).records,
                                        [kind |-> kind,
                                         time |-> FormatHMS(clock')])
                  ELSE store'[p] = store[p]

C9_AppendOnly == [][C9_Step]_vars

\* A stamp has appended to a log that already held a record.
C9_Witness == StampWrote /\ Len(RecordsAt(last.path)) >= 2

\* C10: a log that started absent or empty and holds bytes has the header
\* row as its first row and nowhere else.
C10_HeaderOnceFirst ==
    \A p \in Paths :
        Len(store[p].bytes) > 0
            => LET rows == Rows(store[p].bytes)
               IN  /\ rows[1] = HeaderRow
                   /\ \A i \in 2..Len(rows) : rows[i] # HeaderRow

\* Two stamps have written into the same log.
C10_Witness == \E p \in Paths : Len(Rows(store[p].bytes)) >= 3
\* An integer in decimal notation, and a time of three of them.
IsIntegerText(w) ==
    \E k \in 0..1 :
        /\ Len(w) > k
        /\ k = 1 => w[1] \in {"+", "-"}
        /\ \A i \in (k + 1)..Len(w) : IsDigit(w[i])
ThreeIntegers(t) ==
    /\ Cardinality({i \in 1..Len(t) : t[i] = COLON}) = 2
    /\ \A i \in 1..3 : IsIntegerText(Split(t, COLON)[i])

\* A row after the header row that is not a (kind, time) pair, or whose time
\* is not three ':'-separated integers.
BadRows(rows) ==
    {i \in 2..Len(rows) : Len(rows[i]) # 2 \/ ~ThreeIntegers(rows[i][2])}
Damaged(p) == BadRows(Rows(store[p].bytes)) # {}
Opened == last.cmd \in {"get", "stamp"} /\ last.msg # "Error"

\* C11: reading is all-or-nothing.  When any row of the log, at any position
\* and of either kind, is not a (kind, time) pair or carries a time that is
\* not three ':'-separated integers, a get or a stamp that opened the log
\* fails: it exits non-zero, reports no DayInfo and no worked duration, and
\* no record is ever decided for and appended to such a log.
C11_AllOrNothing ==
    /\ (Opened /\ Damaged(last.path)) =>
           /\ last.exit # 0
           /\ last.msg = "panic"
           /\ last.info = NoInfo
           /\ <<last.worked, last.from, last.to>> = NoTexts
    /\ \A p \in Paths : Damaged(p) => appended[p] = <<>>

\* A get and a stamp each failed on a log whose bad row is not the first
\* record and whose other records are well-formed.
C11_WitnessOn(cmd) ==
    /\ last.cmd = cmd
    /\ last.msg = "panic"
    /\ Cardinality(BadRows(Rows(store[last.path].bytes))) = 1
    /\ 2 \notin BadRows(Rows(store[last.path].bytes))
C11_Witness == C11_WitnessOn("stamp")
C11_WitnessGet == C11_WitnessOn("get")

\* C12: the log round-trips.  After any sequence of sequential stamps on
\* logs that started absent or empty, reading each log back succeeds and
\* yields exactly the records that were handed to the writer, with the same
\* kinds and times, in the order they were appended; the header row is not
\* among them, and each time decodes to the second it was formatted from.
C12_RoundTrip ==
    \A p \in Paths :
        /\ ReadRecords(store[p].bytes).ok
        /\ Readable(p)
        /\ RecordsAt(p) = appended[p]
        /\ \A i \in 1..Len(appended[p]) :
              /\ appended[p][i].kind \in {ClockIn, ClockOut}
              /\ TimeOf(RecordsAt(p)[i]) \in TimePoints
              /\ FormatHMS(TimeOf(RecordsAt(p)[i])) = appended[p][i].time

\* Two stamps wrote to one log, at different times.
C12_Witness ==
    \E p \in Paths :
        /\ Len(appended[p]) >= 2
        /\ appended[p][1].time # appended[p][2].time

\* The positions of the records of a kind.
PositionsOf(records, kind) == {i \in 1..Len(records) : records[i].kind = kind}
Least(S) == CHOOSE i \in S : \A j \in S : i <= j

\* C13: the start that get computes for a day (DayInfo.start) is the time of
\* the first record, in log order, whose kind is ClockIn, however many
\* records of other kinds come before it, and 0 when the log holds no
\* ClockIn record (an empty log included).
C13_FirstClockIn ==
    GetRead =>
        last.info.start =
            IF PositionsOf(RecordsAt(last.path), ClockIn) = {} THEN 0
            ELSE TimeOf(RecordsAt(last.path)[
                     Least(PositionsOf(RecordsAt(last.path), ClockIn))])

\* get read a log whose first ClockIn comes after a record of another kind
\* and before a later ClockIn with another time.
C13_Witness ==
    /\ GetRead
    /\ Len(RecordsAt(last.path)) = 3
    /\ RecordsAt(last.path)[1].kind # ClockIn
    /\ RecordsAt(last.path)[2].kind = ClockIn
    /\ RecordsAt(last.path)[3].kind = ClockIn
    /\ RecordsAt(last.path)[2].time # RecordsAt(last.path)[3].time

\* C14: hhmmss_to_s inverts the "HH:MM:SS" text of every time of day: for h
\* in 0..23 and m, s in 0..59 the text of (h, m, s) parses to
\* h * 3600 + m * 60 + s; and parsing fails for every text that does not
\* consist of exactly three ':'-separated integers.
C14_ParseClock ==
    call.op = "hhmmss_to_s" =>
        /\ call.hms # <<>> =>
              /\ Len(call.text) = 8
              /\ call.ok
              /\ call.val = call.hms[1] * 3600 + call.hms[2] * 60 + call.hms[3]
        /\ ~ThreeIntegers(call.text) => ~call.ok

\* The last second of the day was parsed; a text of four integers was
\* rejected.
C14_Witness ==
    /\ call.op = "hhmmss_to_s"
    /\ call.hms = <<23, 59, 59>>
    /\ call.val = 86399
C14_WitnessRejected ==
    /\ call.op = "hhmmss_to_s"
    /\ call.text = <<"1", COLON, "1">> \o <<COLON, "1", COLON, "1">>
    /\ ~call.ok

\* Two decimal digits of n in 0..99.
TwoDigits(n) == <<DigitChars[(n \div 10) + 1], DigitChars[(n % 10) + 1]>>

\* C15: for every number of seconds of a day, 0..86399, s_to_hhmm shows the
\* hours seconds / 3600 and the minutes (seconds % 3600) / 60, each as two
\* zero-padded digits; for negative seconds both divisions and the remainder
\* truncate toward zero, and the text shows just those two quotients.
C15_FormatClock ==
    call.op = "s_to_hhmm" =>
        IF call.secs >= 0
        THEN call.shown = TwoDigits(call.secs \div 3600) \o <<COLON>>
                              \o TwoDigits((call.secs % 3600) \div 60)
        ELSE call.shown =
                 Fmt02(0 - ((0 - call.secs) \div 3600)) \o <<COLON>>
                     \o Fmt02(0 - (((0 - call.secs) % 3600) \div 60))

\* A negative number of seconds that is no whole number of minutes was
\* shown: -1 h 1 min 1 s.
C15_Witness ==
    /\ call.op = "s_to_hhmm"
    /\ call.secs = 0 - 3661
    /\ call.shown = <<"-", "1", COLON, "-", "1">>

\* The rows of the day's log of the two processes, and how many of them are
\* header rows.
ConcRows == Rows(store[ThePath].bytes)
HeaderCount == Cardinality({i \in 1..Len(ConcRows) : ConcRows[i] = HeaderRow})
Between(p) == procs[p].pc \in {"read", "checked"}

\* C16: the read, decide and append of stamp are not atomic.  A stamp
\* process that has read the log and not yet appended never keeps the other
\* process from reading the same contents, and the record a process appends
\* is the one decided from the contents it read, whatever the log holds by
\* the time of the append.
C16_NotAtomic ==
    \A p \in Procs :
        /\ \A q \in Procs \ {p} :
              (Between(p) /\ procs[q].pc = "opened") => ENABLED Read(q)
        /\ procs[p].pc = "done" =>
              procs[p].wrote =
                  <<NextRecord(procs[p].time, read_work_time(procs[p].seen))>>

\* Both processes read the same contents before either appended, and both
\* appended: the record appended second was decided from a log without the
\* first.
C16_Witness ==
    /\ \A p \in Procs : procs[p].pc = "done"
    /\ procs[1].seen = procs[2].seen
    /\ Len(appended[ThePath]) = 2
    /\ ~IsPrefix(EncodeRecords(SubSeq(appended[ThePath], 1, 1)),
                 procs[1].seen)

\* C17 (as claimed): under every interleaving of two stamp processes on a
\* log that starts absent or empty, the header row is written at most once
\* and only as the first row, and the log can be read back.
C17_HeaderOnceConcurrent ==
    /\ HeaderCount <= 1
    /\ ConcRows # <<>> => ConcRows[1] = HeaderRow
    /\ Readable(ThePath)

\* C17 (amended): under every interleaving the header row is the first row
\* and is written once by each process that found the file empty when it
\* asked its size, twice at most.  When one process found it empty the log
\* can be read back; when both did, the second header row is decoded as a
\* record and reading the log fails.
C17_HeaderPerEmptyCheck ==
    /\ ConcRows # <<>> => ConcRows[1] = HeaderRow
    /\ HeaderCount <= 2
    /\ HeaderCount =
          Cardinality({p \in Procs : procs[p].pc = "done"
                                       /\ procs[p].write_headers})
    /\ HeaderCount <= 1 => Readable(ThePath)
    /\ HeaderCount = 2 =>
          /\ ~Readable(ThePath)
          /\ Len(RecordsAt(ThePath)) = 3
          /\ RecordsAt(ThePath)[2] = [kind |-> KIND, time |-> TIME]

\* Both processes wrote the header row.
C17_Witness ==
    /\ \A p \in Procs : procs[p].pc = "done"
    /\ HeaderCount = 2

\* C18: a failed stamp leaves the log unchanged.  When reading the log fails
\* during stamp (a row that does not decode, or a malformed time) the
\* invocation ends before any write: no header row and no record is
\* appended, and every log is byte for byte what it was before.
C18_Step ==
    (last'.cmd = "stamp" /\ last'.msg = "panic") =>
        /\ store' = store
        /\ appended' = appended
        /\ events' = events
C18_FailedStampWritesNothing == [][C18_Step]_vars

\* A stamp failed on a log with a malformed time, and one on a log with a
\* row that does not decode; the log holds other records too.
C18_WitnessOn(detail) ==
    /\ last.cmd = "stamp"
    /\ last.msg = "panic"
    /\ last.detail = detail
    /\ Len(Rows(store[last.path].bytes)) >= 3
C18_Witness == C18_WitnessOn("time")
C18_WitnessCsv == C18_WitnessOn("csv")

====
